---- MODULE Spec2Model ----
(***************************************************************************)
(* Hermes research agent: the workflow graph of hermes_cli/agents/graph.py *)
(* driven by RunService.run_prompt, with the stage functions of            *)
(* hermes_cli/agents/nodes.                                                *)
(*                                                                         *)
(* A text is a sequence of tokens (a prompt is a sequence of characters),  *)
(* a draft is a record that carries its length and the stage that wrote it,*)
(* a Python dict is a sequence of [q, v] records in insertion order.       *)
(***************************************************************************)
EXTENDS Integers, Sequences, FiniteSets, TLC

\* ------------------------------------------------------------------ bounds
MaxLoops == 2         \* min_validation and max_validation range over 0..MaxLoops
MaxQueryCount == 2    \* the query_count of the runs
MaxSourcesCap == 2    \* the max_sources of the runs
MaxFollowUpPasses == 1 \* follow-up passes of the searcher under SearcherSpec
MaxRetries == 3        \* max_retries and retry range over 1..MaxRetries
MaxTasks == 3          \* the task files of the queue
MaxRunId == 2          \* run IDs are drawn from 1..MaxRunId, numbers of one year
MaxRuns == 3           \* calls of run_prompt under HistorySpec
MaxCreates == 4        \* calls of TaskRepository.create under RepoSpec
MaxPieces == 2         \* writes the operating system sees for one file or log line
MaxReads == 2          \* reads of the file under DiskSpec
MaxLines == 2          \* log lines per writer under LogSpec

\* ------------------------------------------------------- program constants
\* Graph.invoke(state) is called without a config and compile() is called
\* without arguments, so the only limit on the number of executed nodes is
\* the graph library's own default of 25 steps (GraphRecursionError).
RecursionLimit == 25
QualityThreshold == 700      \* HermesState.quality_threshold default 0.7, in 1/1000
DraftTarget == 1200          \* _evaluate_quality: len(draft) / 1200.0
MaxFollowUps == 3            \* max_items of the validator helpers
ErrorMessageLimit == 500     \* error_message[:500]
BackoffMs == 500             \* WebSearchClient backoff_factor = 0.5 s

\* ------------------------------------------------------------ input domains
Prompts == { <<" ", " ">>, <<" ", "a", " ">> }
Q1 == <<"q1">>
Q2 == <<"q2">>
Q3 == <<"q3">>
F1 == <<"f1">>
Urls == {"u1", "u2"}
DraftLens == {600, 1200}

IsSpace(c) == c = " "

RECURSIVE LStrip(_)
LStrip(s) == IF s # <<>> /\ IsSpace(Head(s)) THEN LStrip(Tail(s)) ELSE s

RECURSIVE RStrip(_)
RStrip(s) ==
  IF s # <<>> /\ IsSpace(s[Len(s)]) THEN RStrip(SubSeq(s, 1, Len(s) - 1)) ELSE s

\* str.strip()
Strip(s) == RStrip(LStrip(s))

Range(s) == { s[i] : i \in DOMAIN s }
Min(a, b) == IF a <= b THEN a ELSE b
Max(a, b) == IF a >= b THEN a ELSE b

\* ------------------------------------------------------- ordered dictionary
DictKeys(d) == { d[i].q : i \in DOMAIN d }
DictHas(d, k) == k \in DictKeys(d)
DictGet(d, k, dflt) ==
  IF DictHas(d, k) THEN d[CHOOSE i \in DOMAIN d : d[i].q = k].v ELSE dflt
DictPut(d, k, val) ==
  IF DictHas(d, k)
  THEN [i \in DOMAIN d |-> IF d[i].q = k THEN [q |-> k, v |-> val] ELSE d[i]]
  ELSE Append(d, [q |-> k, v |-> val])

RECURSIVE SumLens(_)
SumLens(d) == IF d = <<>> THEN 0 ELSE Len(Head(d).v) + SumLens(Tail(d))

\* ------------------------------------------------------------------ drafts
NoDraft == [kind |-> "none", len |-> 0]
Falsy(d) == d.len = 0          \* `not state.draft_report`: None or ""
NoReport == [kind |-> "none", body |-> NoDraft, validation_loops |-> 0,
             sources_collected |-> 0, queries_generated |-> 0]

VARIABLES
  pc,                  \* the node the graph runs next, "END", or "raised"
  steps,               \* nodes executed so far by Graph.invoke
  exc,                 \* text of the exception that left invoke, <<>> if none
  user_prompt, query_count,
  queries, follow_up_queries, executed_queries,
  query_results, processed_notes,
  draft_report, validated_report,
  loop_count, min_validation, max_validation, validation_complete,
  min_sources, max_sources,
  error_log, quality_score,
  llm,                 \* the LLM service: "up", "recovered" or "down"
  meta,                \* the HistoryMeta saved by run_prompt, NoMeta before
  hist,                \* history of the run, for the properties only
  mcp,                 \* one WebSearchClient tool call and what search_node made of it
  ollama,              \* one OllamaClient.chat call
  tasks,               \* the task files: id -> [created_at, status]
  workers,             \* the queue processes running process_queue
  history,             \* the history directory and the RunService call using it
  repo,                \* the task directory and the TaskRepository calls using it
  disk,                \* one repository file, its writer and a reader
  logfile,             \* one day's log file and the write_log calls appending to it
  flow,                \* one run of the staged workflow of src/orchestrator
  replay,              \* the first of two runs from one state, kept for the second
  search,              \* the searcher pass under way, query by query
  clock                \* what datetime.now() returns

cfgvars == <<user_prompt, query_count, min_validation, max_validation,
             min_sources, max_sources>>
\* the variables of the clients and of the queue, which a run leaves alone
storevars == <<history, repo, disk, logfile, flow, replay, search>>
compvars == <<mcp, ollama, tasks, workers, storevars, clock>>
\* the variables of one run of the workflow
runvars == <<pc, steps, exc, user_prompt, query_count, queries, follow_up_queries,
             executed_queries, query_results, processed_notes, draft_report,
             validated_report, loop_count, min_validation, max_validation,
             validation_complete, min_sources, max_sources, error_log,
             quality_score, llm, meta, hist>>
vars == <<pc, steps, exc, user_prompt, query_count, queries, follow_up_queries,
          executed_queries, query_results, processed_notes, draft_report,
          validated_report, loop_count, min_validation, max_validation,
          validation_complete, min_sources, max_sources, error_log,
          quality_score, llm, meta, hist, mcp, ollama, tasks, workers,
          history, repo, disk, logfile, flow, replay, search, clock>>

NoMeta == [status |-> "none", validation_loops |-> 0, source_count |-> 0,
           report_file |-> "", error_message |-> <<>>]

NoHist == [ran |-> <<>>,          \* the nodes executed, in order
           validator_calls |-> 0, \* times the validator node was entered
           draft_calls |-> 0,     \* times the draft node was entered
           reached |-> FALSE,     \* some controller pass saw quality >= threshold
           follow_ups |-> <<>>,   \* the follow-ups the validator set, in order
           last |-> [node |-> "none"]]  \* what the last node did

\* No client call and no queue process is under way, and there are no tasks.
NoCall == [status |-> "idle", max_retries |-> 0, attempt |-> 0,
           responses |-> <<>>, sleeps |-> <<>>, error |-> "",
           aggregated |-> 0, encountered_errors |-> <<>>]
NoChat == [status |-> "idle", retry |-> 0, attempt |-> 0,
           responses |-> <<>>, sleeps |-> <<>>, error |-> ""]
\* No repository call, no file access and no second workflow is under way.
IdleStore ==
  /\ history = <<>>
  /\ repo = <<>>
  /\ disk = <<>>
  /\ logfile = <<>>
  /\ flow = <<>>
  /\ replay = <<>>
  /\ search = <<>>
IdleComponents ==
  /\ mcp = NoCall
  /\ ollama = NoChat
  /\ tasks = <<>>
  /\ workers = <<>>
  /\ IdleStore
  /\ clock = 0

\* HermesState(...) as built by run_prompt: the options are taken as given.
Init ==
  /\ pc = "prompt_normalizer"
  /\ steps = 0
  /\ exc = <<>>
  /\ user_prompt \in Prompts
  /\ query_count = MaxQueryCount
  /\ min_validation \in 0..MaxLoops
  /\ max_validation \in 0..MaxLoops
  /\ max_sources = MaxSourcesCap
  /\ min_sources = 1
  /\ queries = <<>>
  /\ follow_up_queries = <<>>
  /\ executed_queries = <<>>
  /\ query_results = <<>>
  /\ processed_notes = <<>>
  /\ draft_report = NoDraft
  /\ validated_report = NoReport
  /\ loop_count = 0
  /\ validation_complete = FALSE
  /\ error_log = <<>>
  /\ quality_score = 0
  /\ llm = "up"
  /\ meta = NoMeta
  /\ hist = NoHist
  /\ IdleComponents

\* One call of state.call_ollama.  The service fails a call either once (it
\* has then recovered and answers every later call) or from some call on for
\* the rest of the run.  LLMCall(ok, after): the call succeeds or not, and
\* the service is left in state `after`.
LLMCall(ok, after) ==
  \/ llm = "up" /\ ok /\ after = "up"
  \/ llm = "up" /\ ~ok /\ after \in {"recovered", "down"}
  \/ llm = "recovered" /\ ok /\ after = "recovered"
  \/ llm = "down" /\ ~ok /\ after = "down"
LLMStates == {"up", "recovered", "down"}

\* Graph.invoke runs one node per step; a node may start only below the limit.
CanRun(node) == pc = node /\ steps < RecursionLimit

Ran(node, last) ==
  [hist EXCEPT !.ran = Append(@, node), !.last = last,
               !.validator_calls = @ + (IF node = "validator" THEN 1 ELSE 0),
               !.draft_calls = @ + (IF node = "draft_aggregator" THEN 1 ELSE 0)]

\* Variant of prompt_normalizer that rejects a blank prompt with EmptyPrompt.
prompt_normalizer_rejects_blank ==
  /\ CanRun("prompt_normalizer")
  /\ LET normalized == Strip(user_prompt) IN
       /\ pc' = IF normalized = <<>> THEN "raised" ELSE "query_generator"
       /\ exc' = IF normalized = <<>> THEN <<"EmptyPrompt">> ELSE exc
       /\ steps' = steps + 1
       /\ hist' = Ran("prompt_normalizer", [node |-> "prompt_normalizer",
                                            normalized |-> normalized])
  /\ UNCHANGED <<compvars, llm, cfgvars, queries, follow_up_queries, executed_queries,
                 query_results, processed_notes, draft_report, validated_report,
                 loop_count, validation_complete, error_log, quality_score, meta>>

\* prompt_normalizer: strips the prompt into a local and returns the state.
prompt_normalizer ==
  /\ CanRun("prompt_normalizer")
  /\ LET normalized == Strip(user_prompt) IN
       /\ pc' = "query_generator"
       /\ steps' = steps + 1
       /\ hist' = Ran("prompt_normalizer", [node |-> "prompt_normalizer",
                                            normalized |-> normalized])
  /\ UNCHANGED <<compvars, llm, exc, cfgvars, queries, follow_up_queries, executed_queries,
                 query_results, processed_notes, draft_report, validated_report,
                 loop_count, validation_complete, error_log, quality_score, meta>>

\* ----------------------------------------------------------- query_generator
\* What the LLM answers to the query request, parsed line by line.
Q1U == <<"Q1">>
QueryResponses == { <<>>, <<Q1>>, <<Q1, Q2>>, <<Q1, Q1U, Q2>>, <<Q1, Q2, Q3>> }

Lower(q) == IF q = Q1U THEN Q1 ELSE q

RECURSIVE DedupLower(_, _)
DedupLower(s, seen) ==
  IF s = <<>> THEN <<>>
  ELSE IF Lower(Head(s)) \in seen THEN DedupLower(Tail(s), seen)
  ELSE <<Head(s)>> \o DedupLower(Tail(s), seen \cup {Lower(Head(s))})

Take(s, n) == SubSeq(s, 1, Min(Len(s), n))

\* query_generator: query_count distinct queries, or [user_prompt] when the
\* LLM call fails or nothing can be parsed (with a diagnostic).
query_generator ==
  /\ CanRun("query_generator")
  /\ \E ok \in BOOLEAN, after \in LLMStates, resp \in QueryResponses :
       LET parsed == IF ok THEN Take(DedupLower(resp, {}), query_count) ELSE <<>>
           fallback == parsed = <<>> IN
         /\ LLMCall(ok, after)
         /\ llm' = after
         /\ (~ok => resp = <<>>)
         /\ queries' = IF fallback THEN <<user_prompt>> ELSE parsed
         /\ error_log' = IF fallback
                         THEN Append(error_log, [node |-> "query_generator",
                                                 what |-> <<"fallback">>])
                         ELSE error_log
         /\ hist' = Ran("query_generator", [node |-> "query_generator",
                                            failed |-> fallback,
                                            ok |-> ok, resp |-> resp])
  /\ pc' = "web_researcher"
  /\ steps' = steps + 1
  /\ UNCHANGED <<compvars, exc, cfgvars, follow_up_queries, executed_queries,
                 query_results, processed_notes, draft_report, validated_report,
                 loop_count, validation_complete, quality_score, meta>>

\* ------------------------------------------------------------ web_researcher
Hit(u, c) == [url |-> u, content |-> c]
\* What the search backend returns for one query, before the client's cut.
RawHitLists ==
  { <<>>, <<Hit("u1", FALSE), Hit("u1", TRUE)>>,
    <<Hit("u1", TRUE), Hit("u2", TRUE), Hit("u2", FALSE)>> }

\* Variant of SearchOutcomes that returns every hit of the backend.
SearchOutcomesUncut(limit) ==
  { [ok |-> FALSE, hits |-> <<>>] } \cup
  { [ok |-> TRUE, hits |-> raw] : raw \in RawHitLists }

\* BrowserUseClient.search: a BrowserUseError, or results[:sources_limit].
SearchOutcomes(limit) ==
  { [ok |-> FALSE, hits |-> <<>>] } \cup
  { [ok |-> TRUE, hits |-> Take(raw, limit)] : raw \in RawHitLists }

FormatResults(results, loop) ==
  [i \in DOMAIN results |->
     [url |-> results[i].url, content |-> results[i].content,
      timestamp |-> clock, loop |-> loop]]

\* Variant of ResearchLoop in which the first failing query ends the pass.
RECURSIVE ResearchLoopAborting(_, _, _, _, _)
ResearchLoopAborting(qs, out, i, loop, st) ==
  IF i > Len(qs) THEN st
  ELSE LET query == qs[i] IN
    IF out[i].ok
    THEN LET existing == DictGet(st.qr, query, <<>>) IN
      ResearchLoopAborting(qs, out, i + 1, loop,
        [qr |-> DictPut(st.qr, query,
                        existing \o FormatResults(out[i].hits, loop)),
         ex |-> Append(st.ex, query),
         el |-> st.el])
    ELSE [qr |-> DictPut(st.qr, query, <<>>),
          ex |-> st.ex,
          el |-> Append(st.el, [node |-> "web_researcher", what |-> query])]

\* The body of `for idx, query in enumerate(queries_to_run)`, from query i on:
\* st is [qr, ex, el], the query_results, executed_queries and error_log so far.
RECURSIVE ResearchLoop(_, _, _, _, _)
ResearchLoop(qs, out, i, loop, st) ==
  IF i > Len(qs) THEN st
  ELSE LET query == qs[i] IN
    IF out[i].ok
    THEN LET existing == DictGet(st.qr, query, <<>>) IN
      ResearchLoop(qs, out, i + 1, loop,
        [qr |-> DictPut(st.qr, query,
                        existing \o FormatResults(out[i].hits, loop)),
         ex |-> Append(st.ex, query),
         el |-> st.el])
    ELSE
      ResearchLoop(qs, out, i + 1, loop,
        [qr |-> DictPut(st.qr, query, <<>>),
         ex |-> st.ex,
         el |-> Append(st.el, [node |-> "web_researcher", what |-> query])])

\* Variant of queries_to_run that always takes the baseline queries.
queries_to_run_baseline(follow, qs) == qs

\* `queries_to_run = state.follow_up_queries or state.queries`.
queries_to_run(follow, qs) == IF follow # <<>> THEN follow ELSE qs

web_researcher ==
  /\ CanRun("web_researcher")
  /\ LET to_run == queries_to_run(follow_up_queries, queries) IN
     IF to_run = <<>>
     THEN /\ error_log' = Append(error_log, [node |-> "web_researcher",
                                             what |-> <<"skipped">>])
          /\ hist' = Ran("web_researcher",
                         [node |-> "web_researcher", ran |-> <<>>,
                          out |-> <<>>, browser |-> TRUE,
                          before |-> query_results,
                          executed_before |-> executed_queries,
                          follow_before |-> follow_up_queries])
          /\ UNCHANGED <<query_results, executed_queries, follow_up_queries>>
     ELSE \E browser \in BOOLEAN,
             out \in [1..Len(to_run) -> SearchOutcomes(max_sources)] :
          LET st == IF browser
                    THEN ResearchLoop(to_run, out, 1, loop_count,
                           [qr |-> query_results, ex |-> executed_queries,
                            el |-> error_log])
                    ELSE [qr |-> query_results, ex |-> executed_queries,
                          el |-> Append(error_log,
                                   [node |-> "web_researcher",
                                    what |-> <<"browser">>])] IN
            /\ (~browser => \A i \in DOMAIN out : ~out[i].ok)
            /\ query_results' = st.qr
            /\ executed_queries' = st.ex
            /\ error_log' = st.el
            /\ follow_up_queries' = <<>>
            /\ hist' = Ran("web_researcher",
                           [node |-> "web_researcher", ran |-> to_run,
                            out |-> out, browser |-> browser,
                            before |-> query_results,
                            executed_before |-> executed_queries,
                          follow_before |-> follow_up_queries])
  /\ pc' = "container_processor"
  /\ steps' = steps + 1
  /\ UNCHANGED <<compvars, llm, exc, cfgvars, queries, processed_notes, draft_report,
                 validated_report, loop_count, validation_complete,
                 quality_score, meta>>

\* -------------------------------------------------------- container_processor
HasTexts(results) == \E i \in DOMAIN results : results[i].content

\* The body of `for query, results in state.query_results.items()`, from entry
\* i on: st is [notes, el]; norm[i] tells whether normalize_texts succeeds.
RECURSIVE ProcessLoop(_, _, _, _, _)
ProcessLoop(qr, norm, i, loop, st) ==
  IF i > Len(qr) THEN st
  ELSE LET query == qr[i].q
           results == qr[i].v IN
    IF results = <<>> \/ ~HasTexts(results)
    THEN ProcessLoop(qr, norm, i + 1, loop, st)
    ELSE IF norm[i]
    THEN LET old == DictGet(st.notes, query, <<>>)
             note == IF loop > 0 /\ old # <<>>
                     THEN Append(old, [loop |-> loop])
                     ELSE <<[loop |-> loop]>> IN
      ProcessLoop(qr, norm, i + 1, loop,
                  [notes |-> DictPut(st.notes, query, note), el |-> st.el])
    ELSE
      ProcessLoop(qr, norm, i + 1, loop,
                  [notes |-> st.notes,
                   el |-> Append(st.el, [node |-> "container_processor",
                                         what |-> query])])

container_processor ==
  /\ CanRun("container_processor")
  /\ \E container \in BOOLEAN, norm \in [DOMAIN query_results -> BOOLEAN] :
       LET st == IF container
                 THEN ProcessLoop(query_results, norm, 1, loop_count,
                                  [notes |-> processed_notes, el |-> error_log])
                 ELSE [notes |-> processed_notes,
                       el |-> Append(error_log, [node |-> "container_processor",
                                                 what |-> <<"container">>])] IN
         \* an outcome is drawn only for the calls that are made
         /\ \A i \in DOMAIN norm :
              (~container \/ query_results[i].v = <<>>
                 \/ ~HasTexts(query_results[i].v)) => norm[i]
         /\ processed_notes' = st.notes
         /\ error_log' = st.el
         /\ hist' = Ran("container_processor",
                        [node |-> "container_processor", container |-> container])
  /\ pc' = "draft_aggregator"
  /\ steps' = steps + 1
  /\ UNCHANGED <<compvars, llm, exc, cfgvars, queries, follow_up_queries, executed_queries,
                 query_results, draft_report, validated_report, loop_count,
                 validation_complete, quality_score, meta>>

\* ----------------------------------------------------------- draft_aggregator
\* The LLM answers with a text of some length (0: empty response) or fails.
DraftOutcomes ==
  { [ok |-> FALSE, len |-> 0] } \cup { [ok |-> TRUE, len |-> n] : n \in DraftLens }

\* Variant of draft_after that drops the draft when the LLM call fails.
draft_after_dropping(failed, before, new) == IF failed THEN NoDraft ELSE new

\* The draft_report the draft stage leaves behind.
draft_after(failed, before, new) == IF failed THEN before ELSE new

\* draft_aggregator: a new draft from the notes; on LLM failure or an empty
\* response the draft is left as it was and a diagnostic is appended.
draft_aggregator ==
  /\ CanRun("draft_aggregator")
  /\ \E o \in DraftOutcomes, after \in LLMStates :
       LET failed == ~o.ok \/ o.len = 0 IN
         /\ LLMCall(o.ok, after)
         /\ llm' = after
         /\ draft_report' = draft_after(failed, draft_report,
                                         [kind |-> "draft", len |-> o.len])
         /\ error_log' = IF failed
                         THEN Append(error_log, [node |-> "draft_aggregator",
                                                 what |-> <<"llm">>])
                         ELSE error_log
         /\ hist' = Ran("draft_aggregator",
                        [node |-> "draft_aggregator", failed |-> failed,
                         before |-> draft_report, resp |-> o])
  /\ pc' = "validation_controller"
  /\ steps' = steps + 1
  /\ UNCHANGED <<compvars, exc, cfgvars, queries, follow_up_queries, executed_queries,
                 query_results, processed_notes, validated_report, loop_count,
                 validation_complete, quality_score, meta>>

\* ------------------------------------------------------ validation_controller
Count(d) == Cardinality({ i \in DOMAIN d : d[i].v # <<>> })

\* _evaluate_quality, in thousandths: round(0.35 a + 0.25 b + 0.25 c + 0.15 d, 3)
\* with a, b, c, d the four ratios, each capped at 1, computed over the common
\* denominator; a tie is rounded up.
evaluate_quality(draft, qs, notes, qr, executed, maxsrc, loops, maxval) ==
  LET nq == IF qs # <<>> THEN Len(qs) ELSE 1
      processed == IF qs # <<>> THEN Min(Count(notes), nq) ELSE 0
      ran == IF executed # <<>> THEN executed ELSE qs
      max_possible == Max(1, Len(ran) * maxsrc)
      total == Min(SumLens(qr), max_possible)
      mv == Max(1, maxval)
      bonus == Min(loops, mv)
      den == DraftTarget * nq * max_possible * mv
      num == 350 * Min(draft.len, DraftTarget) * (nq * max_possible * mv)
             + 250 * processed * (DraftTarget * max_possible * mv)
             + 250 * total * (DraftTarget * nq * mv)
             + 150 * bonus * (DraftTarget * nq * max_possible)
  IN (2 * num + den) \div (2 * den)

\* should_continue_validation: the routing function of the conditional edge.
should_continue_validation(complete) ==
  IF complete THEN "final_reporter" ELSE "validator"

\* Variant of controller_branch that stops only above max_validation.
controller_branch_above_max(loop, minv, maxv) ==
  IF loop < minv THEN "below_min"
  ELSE IF loop > maxv THEN "max_reached"
  ELSE "quality"

\* Variant of controller_branch that tests the maximum before the minimum.
controller_branch_max_first(loop, minv, maxv) ==
  IF loop >= maxv THEN "max_reached"
  ELSE IF loop < minv THEN "below_min"
  ELSE "quality"

\* The three cases of validation_controller, tested in this order.
controller_branch(loop, minv, maxv) ==
  IF loop < minv THEN "below_min"
  ELSE IF loop >= maxv THEN "max_reached"
  ELSE "quality"

validation_controller ==
  /\ CanRun("validation_controller")
  /\ LET score == evaluate_quality(draft_report, queries, processed_notes,
                                   query_results, executed_queries, max_sources,
                                   loop_count, max_validation)
         branch == controller_branch(loop_count, min_validation, max_validation)
         complete == CASE branch = "below_min" -> FALSE
                       [] branch = "max_reached" -> TRUE
                       [] OTHER -> score >= QualityThreshold IN
       /\ validation_complete' = complete
       /\ quality_score' = IF branch = "quality" THEN score ELSE quality_score
       /\ pc' = should_continue_validation(complete)
       /\ hist' = [Ran("validation_controller",
                       [node |-> "validation_controller", branch |-> branch,
                        score |-> score])
                   EXCEPT !.reached = @ \/ (branch = "quality"
                                            /\ score >= QualityThreshold)]
  /\ steps' = steps + 1
  /\ UNCHANGED <<compvars, llm, exc, cfgvars, queries, follow_up_queries, executed_queries,
                 query_results, processed_notes, draft_report, validated_report,
                 loop_count, error_log, meta>>

\* ------------------------------------------------------------------ validator
F2 == <<"f2">>
F3 == <<"f3">>
F4 == <<"f4">>
\* The revised report the LLM returns: its length after strip() and the
\* entries under its 'Follow-up Queries' heading.
ValidatorResponses ==
  { [len |-> 0, follow |-> <<>>],
    [len |-> 600, follow |-> <<>>],
    [len |-> 1200, follow |-> <<F1, F1>>],
    [len |-> 1200, follow |-> <<F1, F2, F3, F4>>] }

\* _extract_follow_up_queries: the first max_items entries of the section.
extract_follow_up_queries(follow) == Take(follow, MaxFollowUps)

RECURSIVE Deficit(_, _)
Deficit(qr, min_required) ==
  IF qr = <<>> THEN <<>>
  ELSE (IF Len(Head(qr).v) < min_required
        THEN << Head(qr).q \o <<" primary sources and statistics">> >>
        ELSE <<>>) \o Deficit(Tail(qr), min_required)

RECURSIVE Dedup(_, _)
Dedup(s, seen) ==
  IF s = <<>> THEN <<>>
  ELSE IF Head(s) \in seen THEN Dedup(Tail(s), seen)
  ELSE <<Head(s)>> \o Dedup(Tail(s), seen \cup {Head(s)})

\* Variant of _generate_follow_up_queries whose floor is min_sources itself.
generate_follow_up_queries_strict(qr, minsrc, prompt) ==
  LET deficit == Deficit(qr, minsrc)
      chosen == IF deficit # <<>> THEN deficit
                ELSE << prompt \o <<" recent developments">>,
                        prompt \o <<" case studies">>,
                        prompt \o <<" expert interviews">> >>
  IN Take(Dedup(chosen, {}), MaxFollowUps)

\* _generate_follow_up_queries
generate_follow_up_queries(qr, minsrc, prompt) ==
  LET deficit == Deficit(qr, Max(1, minsrc))
      chosen == IF deficit # <<>> THEN deficit
                ELSE << prompt \o <<" recent developments">>,
                        prompt \o <<" case studies">>,
                        prompt \o <<" expert interviews">> >>
  IN Take(Dedup(chosen, {}), MaxFollowUps)

validator ==
  /\ CanRun("validator")
  /\ IF Falsy(draft_report)
     THEN /\ hist' = Ran("validator", [node |-> "validator", outcome |-> "no_draft",
                                        resp |-> <<>>,
                                        loop_before |-> loop_count])
          /\ UNCHANGED <<draft_report, loop_count, follow_up_queries, error_log,
                         llm>>
     ELSE \E ok \in BOOLEAN, after \in LLMStates, r \in ValidatorResponses :
          /\ LLMCall(ok, after)
          /\ llm' = after
          /\ (~ok => r.len = 0)
          /\ IF ok
             THEN LET llm_follow_ups == extract_follow_up_queries(r.follow) IN
                  /\ draft_report' = [kind |-> "revised", len |-> r.len]
                  /\ loop_count' = loop_count + 1
                  /\ follow_up_queries' =
                       IF llm_follow_ups # <<>> THEN llm_follow_ups
                       ELSE generate_follow_up_queries(query_results,
                                                       min_sources, user_prompt)
                  /\ UNCHANGED error_log
             ELSE /\ error_log' = Append(error_log, [node |-> "validator",
                                                     what |-> <<"llm">>])
                  /\ UNCHANGED <<draft_report, loop_count, follow_up_queries>>
          /\ hist' = [Ran("validator", [node |-> "validator",
                                        outcome |-> IF ok THEN "revised" ELSE "failed",
                                        resp |-> r,
                                        loop_before |-> loop_count])
                        EXCEPT !.follow_ups = IF ok THEN @ \o follow_up_queries'
                                              ELSE @]
  /\ pc' = "draft_aggregator"
  /\ steps' = steps + 1
  /\ UNCHANGED <<compvars, exc, cfgvars, queries, executed_queries, query_results,
                 processed_notes, validated_report, validation_complete,
                 quality_score, meta>>

\* ------------------------------------------------------------- final_reporter
\* Variant of final_report that writes nothing for an empty draft.
final_report_skipping_empty(draft, loops, sources, generated) ==
  IF Falsy(draft) THEN NoReport
  ELSE [kind |-> "report", body |-> draft, validation_loops |-> loops,
        sources_collected |-> sources, queries_generated |-> generated]

\* Variant of final_report whose metadata block carries the time of writing.
final_report_stamped(draft, loops, sources, generated) ==
  [kind |-> IF Falsy(draft) THEN "error" ELSE "report",
   body |-> draft, validation_loops |-> loops,
   sources_collected |-> sources, queries_generated |-> generated,
   generated_at |-> clock]

\* The report text: the metadata block and the draft, or the error report.
final_report(draft, loops, sources, generated) ==
  [kind |-> IF Falsy(draft) THEN "error" ELSE "report",
   body |-> draft, validation_loops |-> loops,
   sources_collected |-> sources, queries_generated |-> generated]

\* final_reporter: the metadata block followed by the draft; with an empty
\* draft an error report is written and the run fails.
final_reporter ==
  /\ CanRun("final_reporter")
  /\ validated_report' = final_report(draft_report, loop_count,
                                       SumLens(query_results), Len(queries))
  /\ IF Falsy(draft_report)
     THEN pc' = "raised" /\ exc' = <<"EmptyDraft">>
     ELSE pc' = "END" /\ UNCHANGED exc
  /\ steps' = steps + 1
  /\ hist' = Ran("final_reporter", [node |-> "final_reporter"])
  /\ UNCHANGED <<compvars, llm, cfgvars, queries, follow_up_queries, executed_queries,
                 query_results, processed_notes, draft_report, loop_count,
                 validation_complete, error_log, quality_score, meta>>

\* ---------------------------------------------------------------- the driver
Nodes == {"prompt_normalizer", "query_generator", "web_researcher",
          "container_processor", "draft_aggregator", "validation_controller",
          "validator", "final_reporter"}

\* Graph.invoke: with the step limit used up and a node still to run, the
\* library raises GraphRecursionError.
recursion_error ==
  /\ pc \in Nodes
  /\ steps >= RecursionLimit
  /\ pc' = "raised"
  /\ exc' = <<"GraphRecursionError">>
  /\ UNCHANGED <<compvars, llm, steps, cfgvars, queries, follow_up_queries, executed_queries,
                 query_results, processed_notes, draft_report, validated_report,
                 loop_count, validation_complete, error_log, quality_score,
                 meta, hist>>

\* run_prompt after workflow.invoke: the success HistoryMeta, or the failure
\* HistoryMeta of _record_failure_meta and the re-raise.
FailureMeta(message) ==
  [status |-> "failed", validation_loops |-> loop_count,
   source_count |-> SumLens(query_results), report_file |-> "",
   error_message |-> Take(message, ErrorMessageLimit)]

run_prompt_finish ==
  /\ pc \in {"END", "raised"}
  /\ IF pc = "END" /\ validated_report.kind # "none"
     THEN /\ meta' = [status |-> "success", validation_loops |-> loop_count,
                      source_count |-> SumLens(query_results),
                      report_file |-> "report", error_message |-> <<>>]
          /\ pc' = "returned"
          /\ UNCHANGED exc
     ELSE LET e == IF pc = "END" THEN <<"Workflow did not produce a report">>
                   ELSE exc IN
          /\ meta' = FailureMeta(e)
          /\ pc' = "reraised"
          /\ exc' = <<"Execution failed: ">> \o e
  /\ UNCHANGED <<compvars, llm, steps, cfgvars, queries, follow_up_queries, executed_queries,
                 query_results, processed_notes, draft_report, validated_report,
                 loop_count, validation_complete, error_log, quality_score, hist>>

Next ==
  \/ prompt_normalizer
  \/ query_generator
  \/ web_researcher
  \/ container_processor
  \/ draft_aggregator
  \/ validation_controller
  \/ validator
  \/ final_reporter
  \/ recursion_error
  \/ run_prompt_finish

Spec == Init /\ [][Next]_vars

\* ------------------------------------------------- the searcher, pass by pass
\* graph.py has no edge from validator to web_researcher, so under Spec the
\* searcher runs once per run.  SearcherSpec applies web_researcher to the
\* states a successful validator pass leaves (loop_count raised, follow-ups
\* set), which is the pass web_researcher.py:26 and :84-85 are written for.
SearcherInit ==
  /\ pc = "web_researcher"
  /\ steps = 2
  /\ exc = <<>>
  /\ user_prompt \in Prompts
  /\ query_count = MaxQueryCount
  /\ min_validation = 1
  /\ max_validation = MaxLoops
  /\ max_sources = MaxSourcesCap
  /\ min_sources = 1
  /\ queries \in { <<Q1>>, <<Q1, Q2>> }
  /\ follow_up_queries = <<>>
  /\ executed_queries = <<>>
  /\ query_results = <<>>
  /\ processed_notes = <<>>
  /\ draft_report = NoDraft
  /\ validated_report = NoReport
  /\ loop_count = 0
  /\ validation_complete = FALSE
  /\ error_log = <<>>
  /\ quality_score = 0
  /\ llm = "up"
  /\ meta = NoMeta
  /\ hist = [NoHist EXCEPT !.ran = <<"prompt_normalizer", "query_generator">>]
  /\ IdleComponents

\* The validator's answers before a follow-up pass: those of
\* ValidatorResponses, and one whose follow-up repeats a baseline query.
SearcherResponses ==
  ValidatorResponses \cup { [len |-> 1200, follow |-> <<Q1, F1>>] }

\* What validator.py:39-47 does to the state when its call succeeds, after
\* which the state is handed to web_researcher again.
follow_up_pass ==
  /\ pc = "container_processor"
  /\ hist.last.node = "web_researcher"
  /\ loop_count < MaxFollowUpPasses
  /\ steps < RecursionLimit
  /\ \E r \in SearcherResponses :
       LET llm_follow_ups == extract_follow_up_queries(r.follow) IN
         /\ r.len > 0
         /\ draft_report' = [kind |-> "revised", len |-> r.len]
         /\ loop_count' = loop_count + 1
         /\ follow_up_queries' =
              IF llm_follow_ups # <<>> THEN llm_follow_ups
              ELSE generate_follow_up_queries(query_results, min_sources,
                                              user_prompt)
  /\ hist' = [Ran("validator", [node |-> "validator", outcome |-> "revised"])
                EXCEPT !.follow_ups = @ \o follow_up_queries']
  /\ pc' = "web_researcher"
  /\ steps' = steps + 1
  /\ UNCHANGED <<compvars, llm, exc, cfgvars, queries, executed_queries, query_results,
                 processed_notes, validated_report, validation_complete,
                 error_log, quality_score, meta>>

SearcherNext ==
  \/ web_researcher
  \/ follow_up_pass

SearcherSpec == SearcherInit /\ [][SearcherNext]_vars

\* ------------------------------------------------------------ the clients
\* No run of the workflow is under way.
IdleRun ==
  /\ pc = "idle"
  /\ steps = 0
  /\ exc = <<>>
  /\ user_prompt = <<"a">>
  /\ query_count = MaxQueryCount
  /\ min_validation = 1
  /\ max_validation = MaxLoops
  /\ max_sources = MaxSourcesCap
  /\ min_sources = 1
  /\ queries = <<>>
  /\ follow_up_queries = <<>>
  /\ executed_queries = <<>>
  /\ query_results = <<>>
  /\ processed_notes = <<>>
  /\ draft_report = NoDraft
  /\ validated_report = NoReport
  /\ loop_count = 0
  /\ validation_complete = FALSE
  /\ error_log = <<>>
  /\ quality_score = 0
  /\ llm = "up"
  /\ meta = NoMeta
  /\ hist = NoHist

RECURSIVE Pow2(_)
Pow2(k) == IF k = 0 THEN 1 ELSE 2 * Pow2(k - 1)

\* WebSearchClient._call_tool_with_retries, one loop iteration per step, and
\* the try/except of search_node around client.full_search.
\* What one POST brings: a status code with a JSON body, a body that is not
\* JSON, or an exception of the HTTP session.
McpResponses == {"200", "404", "429", "500", "invalid_json", "exception"}

\* Variant of BackoffDelay that waits the same time before every retry.
BackoffDelayFlat(attempt) == BackoffMs

\* _sleep_with_backoff: backoff_factor * 2 ** (attempt - 1), in milliseconds.
BackoffDelay(attempt) == BackoffMs * Pow2(attempt - 1)

\* The call has ended with last_error raised: search_node records a
\* RateLimitError or MCPClientError, any other exception passes through it.
McpRaised(m) ==
  [m EXCEPT !.status = "raised",
            !.encountered_errors =
               IF m.error \in {"RateLimitError", "MCPClientError"}
               THEN Append(@, m.error) ELSE @]

\* Variant of McpStep in which a 429 ends the call at once.
McpStepRateLimitFatal(m, resp) ==
  LET n == m.attempt + 1
      seen == [m EXCEPT !.attempt = n, !.responses = Append(@, resp)]
      failed == [seen EXCEPT !.error = IF resp = "429" THEN "RateLimitError"
                                       ELSE IF resp = "exception" THEN "Exception"
                                       ELSE "MCPClientError"]
      slept == [failed EXCEPT !.sleeps = Append(@, BackoffDelay(n))]
  IN IF resp \in {"200", "404"}
     THEN [seen EXCEPT !.status = "returned", !.aggregated = n]
     ELSE IF resp = "429" \/ n = m.max_retries THEN McpRaised(failed)
     ELSE slept

\* One iteration of `for attempt in range(1, self.max_retries + 1)`.
McpStep(m, resp) ==
  LET n == m.attempt + 1
      seen == [m EXCEPT !.attempt = n, !.responses = Append(@, resp)]
      failed == [seen EXCEPT !.error = IF resp = "429" THEN "RateLimitError"
                                       ELSE IF resp = "exception" THEN "Exception"
                                       ELSE "MCPClientError"]
      slept == [failed EXCEPT !.sleeps = Append(@, BackoffDelay(n))]
  IN IF resp \in {"200", "404"}
     THEN [seen EXCEPT !.status = "returned", !.aggregated = n]
     ELSE IF resp = "429"
     THEN (IF n = m.max_retries THEN McpRaised(slept) ELSE slept)
     ELSE (IF n = m.max_retries THEN McpRaised(failed) ELSE slept)

mcp_attempt ==
  /\ mcp.status = "calling"
  /\ \E resp \in McpResponses : mcp' = McpStep(mcp, resp)
  /\ UNCHANGED <<runvars, storevars, clock, ollama, tasks, workers>>

McpInit ==
  /\ IdleRun
  /\ \E r \in 1..MaxRetries : mcp = [NoCall EXCEPT !.status = "calling",
                                                    !.max_retries = r]
  /\ ollama = NoChat
  /\ tasks = <<>>
  /\ workers = <<>>
  /\ IdleStore
  /\ clock = 0

McpNext == mcp_attempt

McpSpec == McpInit /\ [][McpNext]_vars

\* OllamaClient.chat, one loop iteration per step.
\* What one request brings: a 2xx body with message.content, a 2xx body
\* without it, a non-2xx status, a timeout, or another exception.
ChatResponses == {"content", "no_content", "http_error", "timeout", "error"}

\* Variant of ChatStep in which a 2xx body without message.content ends the
\* call at once.
ChatStepMissingContentFatal(o, resp) ==
  LET n == o.attempt
      seen == [o EXCEPT !.attempt = n + 1, !.responses = Append(@, resp)]
      failed == [seen EXCEPT !.error = IF resp = "timeout"
                                       THEN "OllamaTimeoutError"
                                       ELSE "OllamaAPIError"]
  IN IF resp = "content" THEN [seen EXCEPT !.status = "returned"]
     ELSE IF resp = "no_content" \/ n >= o.retry - 1
     THEN [failed EXCEPT !.status = "raised"]
     ELSE [failed EXCEPT !.sleeps = Append(@, n + 1)]

\* One iteration of `for attempt in range(self.config.retry)`; the raise of
\* the format error is inside the try and caught by `except Exception`.
ChatStep(o, resp) ==
  LET n == o.attempt
      seen == [o EXCEPT !.attempt = n + 1, !.responses = Append(@, resp)]
      failed == [seen EXCEPT !.error = IF resp = "timeout"
                                       THEN "OllamaTimeoutError"
                                       ELSE "OllamaAPIError"]
  IN IF resp = "content" THEN [seen EXCEPT !.status = "returned"]
     ELSE IF n < o.retry - 1
     THEN [failed EXCEPT !.sleeps = Append(@, n + 1)]
     ELSE [failed EXCEPT !.status = "raised"]

chat_attempt ==
  /\ ollama.status = "calling"
  /\ \E resp \in ChatResponses : ollama' = ChatStep(ollama, resp)
  /\ UNCHANGED <<runvars, storevars, clock, mcp, tasks, workers>>

OllamaInit ==
  /\ IdleRun
  /\ mcp = NoCall
  /\ \E r \in 1..MaxRetries : ollama = [NoChat EXCEPT !.status = "calling",
                                                       !.retry = r]
  /\ tasks = <<>>
  /\ workers = <<>>
  /\ IdleStore
  /\ clock = 0

OllamaNext == chat_attempt

OllamaSpec == OllamaInit /\ [][OllamaNext]_vars

\* ------------------------------------------------------------------ the queue
\* Task ids are 1..MaxTasks in the order of creation; created_at grows with
\* the id.  Each queue process is one call of QueueService.process_queue.
TaskIds == 1..MaxTasks
Procs == {"w1", "w2"}
Limits == {0, 1, 2}          \* 0 stands for `limit is None`

RECURSIVE Descending(_)
\* TaskService.list_tasks: every task, newest first.
Descending(n) == IF n = 0 THEN <<>> ELSE <<n>> \o Descending(n - 1)

RECURSIVE Filter(_, _)
Filter(ids, ts) ==
  IF ids = <<>> THEN <<>>
  ELSE (IF ts[Head(ids)].status = "scheduled" THEN <<Head(ids)>> ELSE <<>>)
       \o Filter(Tail(ids), ts)

RECURSIVE Insert(_, _, _)
Insert(x, sorted, ts) ==
  IF sorted = <<>> THEN <<x>>
  ELSE IF ts[x].created_at < ts[Head(sorted)].created_at
       THEN <<x>> \o sorted
       ELSE <<Head(sorted)>> \o Insert(x, Tail(sorted), ts)

RECURSIVE SortByCreatedAt(_, _)
\* tasks.sort(key=lambda t: t.created_at)
SortByCreatedAt(ids, ts) ==
  IF ids = <<>> THEN <<>>
  ELSE Insert(Head(ids), SortByCreatedAt(Tail(ids), ts), ts)

\* Variant of list_scheduled_tasks without the sort.
list_scheduled_tasks_unsorted(ts) == Filter(Descending(MaxTasks), ts)

\* QueueService.list_scheduled_tasks
list_scheduled_tasks(ts) ==
  SortByCreatedAt(Filter(Descending(MaxTasks), ts), ts)

NoWorker == [phase |-> "idle", listed |-> {}, scheduled |-> <<>>, i |-> 0,
             results |-> <<>>, log |-> <<>>]

\* process_queue up to the loop: the scheduled tasks, cut to the limit.
list_queue(w) ==
  /\ workers[w].phase = "idle"
  /\ \E limit \in Limits :
       LET all == list_scheduled_tasks(tasks)
           scheduled == IF limit > 0 THEN Take(all, limit) ELSE all IN
         workers' = [workers EXCEPT ![w] =
           [@ EXCEPT !.phase = IF scheduled = <<>> THEN "done" ELSE "ready",
                     !.listed = Range(all),
                     !.scheduled = scheduled,
                     !.i = 1]]
  /\ UNCHANGED <<runvars, storevars, clock, mcp, ollama, tasks>>

\* run_task up to run_prompt: the task is loaded and marked running.
start_task(w) ==
  /\ workers[w].phase = "ready"
  /\ LET id == workers[w].scheduled[workers[w].i] IN
       /\ tasks' = [tasks EXCEPT ![id].status = "running"]
       /\ workers' = [workers EXCEPT ![w] =
            [@ EXCEPT !.phase = "running",
                      !.log = Append(@, [ev |-> "start", id |-> id, ok |-> TRUE])]]
  /\ UNCHANGED <<runvars, storevars, clock, mcp, ollama>>

\* Variant of AfterTask in which a failed task ends the loop.
AfterTaskHalting(ok, i, n) == IF ~ok \/ i = n THEN "done" ELSE "ready"

\* `for task in scheduled`: after task i of n the loop goes on or is over.
AfterTask(ok, i, n) == IF i = n THEN "done" ELSE "ready"

\* Variant of status_after_run that leaves a task whose run raised as it was.
status_after_run_left_running(ok) == IF ok THEN "done" ELSE "running"

\* run_task after run_prompt: update_status(task_id, "done") when it returned,
\* update_status(task_id, "failed") in `except Exception`.
status_after_run(ok) == IF ok THEN "done" ELSE "failed"

\* run_prompt returns or raises: run_task marks the task done or failed and
\* process_queue appends the QueueResult.
finish_task(w) ==
  /\ workers[w].phase = "running"
  /\ \E ok \in BOOLEAN :
       LET id == workers[w].scheduled[workers[w].i] IN
         /\ tasks' = [tasks EXCEPT ![id].status = status_after_run(ok)]
         /\ workers' = [workers EXCEPT ![w] =
              [@ EXCEPT !.phase = AfterTask(ok, workers[w].i,
                                           Len(workers[w].scheduled)),
                        !.i = @ + 1,
                        !.results = Append(@, [task_id |-> id,
                                               status |-> IF ok THEN "success"
                                                          ELSE "failed"]),
                        !.log = Append(@, [ev |-> "end", id |-> id, ok |-> ok])]]
  /\ UNCHANGED <<runvars, storevars, clock, mcp, ollama>>

QueueInit ==
  /\ IdleRun
  /\ mcp = NoCall
  /\ ollama = NoChat
  /\ tasks \in [TaskIds -> { [created_at |-> t, status |-> st] :
                              t \in TaskIds, st \in {"scheduled", "done"} }]
  /\ \A id \in TaskIds : tasks[id].created_at = id
  /\ workers = [w \in Procs |-> NoWorker]
  /\ IdleStore
  /\ clock = 0

QueueNext ==
  \E w \in Procs :
    \/ list_queue(w)
    \/ start_task(w)
    \/ finish_task(w)

QueueSpec == QueueInit /\ [][QueueNext]_vars

\* ------------------------------------------------------ the history directory
\* RunService.run_prompt, call after call, over the files of
\* HistoryRepository: report-<id>.md and report-<id>.meta.yaml.  The workflow
\* is summed up by how invoke ends; a text is its length in characters.
IdleClients ==
  /\ mcp = NoCall
  /\ ollama = NoChat
  /\ tasks = <<>>
  /\ workers = <<>>
  /\ clock = 0

RunIds == 1..MaxRunId
ErrorLens == {0, 33, 499, 500, 501, 1200}
NoReportLen == 33   \* len("Workflow did not produce a report")
RaisePrefixLen == 18   \* len("Execution failed: ")
NoFile == [kind |-> "absent"]
NoRun == [phase |-> "idle", id |-> 0, n |-> 0, existing |-> {}, todo |-> <<>>,
          message |-> 0, raised |-> 0]
EmptyHistory == [meta |-> [i \in RunIds |-> NoFile],
                 report |-> [i \in RunIds |-> NoFile],
                 run |-> NoRun, serial |-> 0, deleting |-> 0]
nothistory == <<runvars, mcp, ollama, tasks, workers, clock,
                repo, disk, logfile, flow, replay, search>>

\* The IDs that have a file in the history directory.
ExistingIds(h) ==
  { i \in RunIds : h.meta[i] # NoFile \/ h.report[i] # NoFile }

\* _generate_run_id: a random number of the year, whatever the directory holds.
generate_run_id(h) == RunIds

\* Variant of SuccessWrites that saves the metadata before the report.
SuccessWritesMetaFirst == <<"meta", "report">>

\* The two saves of a successful run, in the order run_prompt makes them.
SuccessWrites == <<"report", "meta">>

\* Variant of Truncated that stores the whole message.
Untruncated(len) == len

\* error_message[:500]
Truncated(len) == Min(len, ErrorMessageLimit)

\* run_prompt up to workflow.invoke: the run has its ID.
begin_run ==
  /\ history.run.phase = "idle"
  /\ history.deleting = 0
  /\ history.serial < MaxRuns
  /\ \E id \in generate_run_id(history) :
       history' = [history EXCEPT
         !.serial = @ + 1,
         !.run = [NoRun EXCEPT !.phase = "invoking", !.id = id,
                               !.n = history.serial + 1,
                               !.existing = ExistingIds(history)]]
  /\ UNCHANGED nothistory

\* workflow.invoke returns a report, returns none, or raises.
invoke_ends ==
  /\ history.run.phase = "invoking"
  /\ \E out \in {"report", "empty", "raised"}, len \in ErrorLens :
       /\ (out # "raised" => len = 0)
       /\ history' = [history EXCEPT !.run =
            IF out = "report"
            THEN [@ EXCEPT !.phase = "saving", !.todo = SuccessWrites]
            ELSE [@ EXCEPT !.phase = "failing",
                           !.message = IF out = "empty" THEN NoReportLen
                                       ELSE len]]
  /\ UNCHANGED nothistory

\* save_report, then save_meta with status success, then the return.
save_step ==
  /\ history.run.phase = "saving"
  /\ LET r == history.run
         what == Head(r.todo)
         left == Tail(r.todo) IN
       history' = [history EXCEPT
         !.report = IF what = "report"
                    THEN [@ EXCEPT ![r.id] = [kind |-> "report", run |-> r.n]]
                    ELSE @,
         !.meta = IF what = "meta"
                  THEN [@ EXCEPT ![r.id] =
                         [kind |-> "meta", run |-> r.n, status |-> "success",
                          report_file |-> r.id, error_message |-> 0]]
                  ELSE @,
         !.run = [r EXCEPT !.todo = left,
                           !.phase = IF left = <<>> THEN "returned" ELSE "saving"]]
  /\ UNCHANGED nothistory

\* except Exception: _record_failure_meta, then RuntimeError("Execution
\* failed: ...") from the exception.
record_failure ==
  /\ history.run.phase = "failing"
  /\ LET r == history.run IN
       history' = [history EXCEPT
         !.meta = [@ EXCEPT ![r.id] =
                    [kind |-> "meta", run |-> r.n, status |-> "failed",
                     report_file |-> 0,
                     error_message |-> Truncated(r.message)]],
         !.run = [r EXCEPT !.phase = "reraised",
                           !.raised = RaisePrefixLen + r.message]]
  /\ UNCHANGED nothistory

\* run_prompt has returned or raised: the call is over.
end_run ==
  /\ history.run.phase \in {"returned", "reraised"}
  /\ history' = [history EXCEPT !.run = NoRun]
  /\ UNCHANGED nothistory

\* HistoryRepository.delete, between two runs: the metadata file goes first.
delete_meta ==
  /\ history.run.phase = "idle"
  /\ history.deleting = 0
  /\ \E id \in ExistingIds(history) :
       history' = [history EXCEPT !.meta = [@ EXCEPT ![id] = NoFile],
                                  !.deleting = id]
  /\ UNCHANGED nothistory

delete_report ==
  /\ history.deleting # 0
  /\ history' = [history EXCEPT !.report = [@ EXCEPT ![history.deleting] = NoFile],
                                !.deleting = 0]
  /\ UNCHANGED nothistory

HistoryInit ==
  /\ IdleRun
  /\ IdleClients
  /\ history = EmptyHistory
  /\ repo = <<>>
  /\ disk = <<>>
  /\ logfile = <<>>
  /\ flow = <<>>
  /\ replay = <<>>
  /\ search = <<>>

HistoryNext ==
  \/ begin_run
  \/ invoke_ends
  \/ save_step
  \/ record_failure
  \/ end_run
  \/ delete_meta
  \/ delete_report

HistorySpec == HistoryInit /\ [][HistoryNext]_vars


\* --------------------------------------------------------- the task directory
\* TaskRepository.create and delete over the files task-<id>.yaml.  An ID is
\* its year and its number; IdWidth is the number of digits "{n:04d}" prints.
TaskYears == {2025, 2026}
IdWidth(n) == IF n < 10000 THEN 4 ELSE 5
NoCreate == [phase |-> "idle", listed |-> {}, gone |-> {},
             id |-> [year |-> 0, num |-> 0]]
notrepo == <<runvars, mcp, ollama, tasks, workers, clock,
             history, disk, logfile, flow, replay, search>>

RECURSIVE SetMax(_)
SetMax(S) ==
  IF S = {} THEN 0
  ELSE LET x == CHOOSE y \in S : TRUE IN Max(x, SetMax(S \ {x}))

\* The numbers of the listed tasks whose ID starts with the year.
NumbersOfYear(listed, year) == { t.num : t \in { u \in listed : u.year = year } }

\* Variant of generate_next_id that counts the tasks of the year.
generate_next_id_by_count(listed, year) ==
  [year |-> year, num |-> Cardinality(NumbersOfYear(listed, year)) + 1]

\* _generate_next_id: the highest number of the current year, plus one.
generate_next_id(listed, year) ==
  [year |-> year, num |-> SetMax(NumbersOfYear(listed, year)) + 1]

\* create up to save: list_all is read and the ID is generated.
create_generate(p) ==
  /\ repo.calls[p].phase \in {"idle", "saved"}
  /\ repo.made < MaxCreates
  /\ repo' = [repo EXCEPT
       !.made = @ + 1,
       !.calls = [@ EXCEPT ![p] =
          [phase |-> "generated", listed |-> repo.files,
           gone |-> repo.deleted,
           id |-> generate_next_id(repo.files, repo.year)]]]
  /\ UNCHANGED notrepo

\* create: save(task) writes task-<id>.yaml.
create_save(p) ==
  /\ repo.calls[p].phase = "generated"
  /\ repo' = [repo EXCEPT
       !.files = @ \cup {repo.calls[p].id},
       !.calls = [@ EXCEPT ![p].phase = "saved"]]
  /\ UNCHANGED notrepo

\* TaskRepository.delete: the task's file is unlinked; deleted keeps the IDs
\* of the tasks deleted so far (the history files of a task stay on disk).
delete_task ==
  /\ \E id \in repo.files :
       repo' = [repo EXCEPT !.files = @ \ {id}, !.deleted = @ \cup {id}]
  /\ UNCHANGED notrepo

\* datetime.now().year moves on.
new_year ==
  /\ repo.year + 1 \in TaskYears
  /\ repo' = [repo EXCEPT !.year = @ + 1]
  /\ UNCHANGED notrepo

RepoInit ==
  /\ IdleRun
  /\ IdleClients
  /\ repo = [files |-> {}, deleted |-> {}, year |-> 2025, made |-> 0,
             calls |-> [p \in Procs |-> NoCreate]]
  /\ history = <<>>
  /\ disk = <<>>
  /\ logfile = <<>>
  /\ flow = <<>>
  /\ replay = <<>>
  /\ search = <<>>

RepoNext ==
  \/ \E p \in Procs : create_generate(p) \/ create_save(p)
  \/ delete_task
  \/ new_year

RepoSpec == RepoInit /\ [][RepoNext]_vars


\* ------------------------------------------------------- one repository file
\* TaskRepository.save, HistoryRepository.save_meta and save_report write a
\* file the same way: open(path, 'w') empties it, the dump is written in one
\* or more pieces, and closing the file ends the write.  load and load_meta
\* read the path at any moment.  A content is the sequence of its pieces.
Versions == {"a", "b", "c"}
Contents ==
  { [i \in 1..n |-> [version |-> v, piece |-> i, of |-> n]] :
      v \in Versions, n \in 1..MaxPieces }
notdisk == <<runvars, mcp, ollama, tasks, workers, clock,
             history, repo, logfile, flow, replay, search>>

\* with open(path, 'w') as f: the file is emptied.
open_w ==
  /\ disk.writer = "idle"
  /\ disk' = [disk EXCEPT !.file = <<>>, !.writer = "writing"]
  /\ UNCHANGED notdisk

\* yaml.dump(..., f) / f.write(...): the next piece reaches the file.
write_piece ==
  /\ disk.writer = "writing"
  /\ Len(disk.file) < Len(disk.new)
  /\ disk' = [disk EXCEPT !.file = Append(@, disk.new[Len(disk.file) + 1])]
  /\ UNCHANGED notdisk

\* The with block ends.
close_w ==
  /\ disk.writer = "writing"
  /\ disk.file = disk.new
  /\ disk' = [disk EXCEPT !.writer = "closed"]
  /\ UNCHANGED notdisk

\* load / load_meta / load_report in another process: f.read() of the path.
read_file ==
  /\ Len(disk.seen) < MaxReads
  /\ disk' = [disk EXCEPT !.seen = Append(@, disk.file)]
  /\ UNCHANGED notdisk

DiskInit ==
  /\ IdleRun
  /\ IdleClients
  /\ \E old \in Contents, new \in Contents :
       /\ old[1].version # new[1].version
       /\ disk = [file |-> old, old |-> old, new |-> new, writer |-> "idle",
                  seen |-> <<>>]
  /\ history = <<>>
  /\ repo = <<>>
  /\ logfile = <<>>
  /\ flow = <<>>
  /\ replay = <<>>
  /\ search = <<>>

DiskNext ==
  \/ open_w
  \/ write_piece
  \/ close_w
  \/ read_file

DiskSpec == DiskInit /\ [][DiskNext]_vars

\* ---------------------------------------------------------------- the log file
\* LogRepository.write_log in several processes or threads at once:
\* open(log_file, 'a'), f.write(log_line), and the flush on close, which hands
\* the line to the operating system in one write or, after a short write, in
\* more.  Every write is appended at the end of the file as it is then.
NoAppend == [phase |-> "idle", line |-> 0, parts |-> 0, written |-> 0]
notlog == <<runvars, mcp, ollama, tasks, workers, clock,
            history, repo, disk, flow, replay, search>>

\* with open(log_file, 'a') as f: f.write(log_line)
append_open(w) ==
  /\ logfile.calls[w].phase = "idle"
  /\ logfile.calls[w].line < MaxLines
  /\ \E parts \in 1..MaxPieces :
       logfile' = [logfile EXCEPT !.calls = [@ EXCEPT ![w] =
          [phase |-> "open", line |-> logfile.calls[w].line + 1,
           parts |-> parts, written |-> 0]]]
  /\ UNCHANGED notlog

\* The flush: the next part of the line is appended to the file.
append_write(w) ==
  /\ logfile.calls[w].phase = "open"
  /\ logfile.calls[w].written < logfile.calls[w].parts
  /\ LET c == logfile.calls[w] IN
       logfile' = [logfile EXCEPT
         !.content = Append(@, [writer |-> w, line |-> c.line,
                                part |-> c.written + 1, of |-> c.parts]),
         !.calls = [@ EXCEPT ![w].written = @ + 1]]
  /\ UNCHANGED notlog

\* The with block ends: write_log returns.
append_close(w) ==
  /\ logfile.calls[w].phase = "open"
  /\ logfile.calls[w].written = logfile.calls[w].parts
  /\ logfile' = [logfile EXCEPT !.calls = [@ EXCEPT ![w].phase = "idle"]]
  /\ UNCHANGED notlog

LogInit ==
  /\ IdleRun
  /\ IdleClients
  /\ logfile = [content |-> <<>>, calls |-> [w \in Procs |-> NoAppend]]
  /\ history = <<>>
  /\ repo = <<>>
  /\ disk = <<>>
  /\ flow = <<>>
  /\ replay = <<>>
  /\ search = <<>>

LogNext ==
  \E w \in Procs :
    \/ append_open(w)
    \/ append_write(w)
    \/ append_close(w)

LogSpec == LogInit /\ [][LogNext]_vars


\* ------------------------------------------------------------ an interrupt
\* Neither RunService nor the graph has a cancel flag; what ends a run from
\* outside is the interrupt of the process (KeyboardInterrupt), which is no
\* Exception: no node and no `except Exception` of run_prompt, run_task or
\* the run command catches it, and it leaves run_prompt as it is.
interrupt ==
  /\ pc \in Nodes
  /\ pc' = "interrupted"
  /\ exc' = <<"KeyboardInterrupt">>
  /\ UNCHANGED <<compvars, llm, steps, cfgvars, queries, follow_up_queries,
                 executed_queries, query_results, processed_notes,
                 draft_report, validated_report, loop_count,
                 validation_complete, error_log, quality_score, meta, hist>>

CancelInit ==
  /\ Init
  /\ user_prompt = <<" ", "a", " ">>
  /\ min_validation = 1
  /\ max_validation = 1

CancelNext ==
  \/ Next
  \/ interrupt

CancelSpec == CancelInit /\ [][CancelNext]_vars


\* -------------------------------------------------- the staged workflow
\* The workflow of src/orchestrator/workflow.py: input, search, processing,
\* llm, verification, and from there search again or report.  The stages can
\* be replaced by injected ones (WorkflowDependencies) and the run can be
\* streamed (run_workflow(stream=True)); an injected stage returns the same
\* payload at every call.
Stages == {"input", "search", "processing", "llm", "verification", "report"}
NodeName(stage) ==
  CASE stage = "input" -> "input_node"
    [] stage = "search" -> "search_node"
    [] stage = "processing" -> "processing_node"
    [] stage = "llm" -> "llm_node"
    [] stage = "verification" -> "verification_node"
    [] stage = "report" -> "report_node"
VerificationMaxLoops == 2
Injections == { {}, Stages, {"verification"}, {"search", "llm", "report"} }
notflow == <<runvars, mcp, ollama, tasks, workers, clock,
             history, repo, disk, logfile, replay, search>>

\* should_continue_verification: search again while the summary asks for it
\* and the loops are not used up.
should_continue_verification(needs, count) ==
  IF needs /\ count < VerificationMaxLoops THEN "search" ELSE "report"

\* The edges of create_workflow.
NextStage(stage, needs, count) ==
  CASE stage = "input" -> "search"
    [] stage = "search" -> "processing"
    [] stage = "processing" -> "llm"
    [] stage = "llm" -> "verification"
    [] stage = "verification" -> should_continue_verification(needs, count)
    [] stage = "report" -> "END"

\* Variant of Implementation that always runs the built-in stage.
ImplementationBuiltIn(stage, injected) == "default"

\* compile_workflow(dependencies): an injected stage replaces the built-in one.
Implementation(stage, injected) ==
  IF stage \in injected THEN "injected" ELSE "default"

\* Streaming appends one event per executed stage: its node and its update.
Emit(events, stream, stage, impl, delta) ==
  IF stream THEN Append(events, [node |-> NodeName(stage), delta |-> delta])
  ELSE events

\* One stage runs: the update it returns is merged and the edge is followed.
run_stage ==
  /\ flow.at \in Stages
  /\ flow.steps < RecursionLimit
  /\ LET stage == flow.at
         impl == Implementation(stage, flow.injected) IN
     \E needs \in BOOLEAN :
       LET delta ==
             IF stage # "verification" THEN [by |-> impl, stage |-> stage]
             ELSE IF impl = "injected"
             THEN [by |-> impl, stage |-> stage, needs |-> flow.payload.needs,
                   count |-> flow.payload.count]
             ELSE [by |-> impl, stage |-> stage, needs |-> needs,
                   count |-> flow.count + 1]
           count == IF stage = "verification" /\ delta.count # -1
                    THEN delta.count ELSE flow.count
           asks == IF stage = "verification" THEN delta.needs ELSE flow.needs
       IN /\ (stage # "verification" \/ impl = "injected" => needs = FALSE)
          /\ flow' = [flow EXCEPT
               !.at = NextStage(stage, asks, count),
               !.steps = @ + 1,
               !.count = count,
               !.needs = asks,
               !.calls = Append(@, [stage |-> stage, impl |-> impl,
                                    delta |-> delta]),
               !.events = Emit(@, flow.stream, stage, impl, delta)]
  /\ UNCHANGED notflow

\* The step limit of the graph library is used up with a stage still to run.
flow_recursion_error ==
  /\ flow.at \in Stages
  /\ flow.steps >= RecursionLimit
  /\ flow' = [flow EXCEPT !.at = "raised"]
  /\ UNCHANGED notflow

FlowInit ==
  /\ IdleRun
  /\ IdleClients
  /\ \E stream \in BOOLEAN, injected \in Injections,
        needs \in BOOLEAN, count \in {-1, VerificationMaxLoops} :
       flow = [at |-> "input", steps |-> 0, count |-> 0, needs |-> FALSE,
               stream |-> stream, injected |-> injected,
               payload |-> [needs |-> needs, count |-> count],
               calls |-> <<>>, events |-> <<>>]
  /\ history = <<>>
  /\ repo = <<>>
  /\ disk = <<>>
  /\ logfile = <<>>
  /\ replay = <<>>
  /\ search = <<>>

FlowNext ==
  \/ run_stage
  \/ flow_recursion_error

FlowSpec == FlowInit /\ [][FlowNext]_vars


\* ------------------------------------------------- two runs from one state
\* run_prompt twice on the same state with clients that answer the second run
\* as they answered the first: the first run goes as under Spec and what the
\* clients answered is kept, stage by stage; then the state is built again,
\* later by the clock, and the second run gets the same answers.
NoFirst == [pc |-> "none", report |-> NoReport, ran |-> <<>>,
            query_results |-> <<>>]
notreplay == <<mcp, ollama, tasks, workers, history, repo, disk, logfile, flow, search>>

\* What the clients answered to the stage that has just run.
Answer(last) ==
  CASE last.node = "query_generator" -> <<last.ok, last.resp>>
    [] last.node = "web_researcher" -> <<last.browser, last.out>>
    [] last.node = "container_processor" -> <<last.container>>
    [] last.node = "draft_aggregator" -> <<last.resp>>
    [] last.node = "validator" -> <<last.outcome, last.resp>>
    [] OTHER -> <<>>

\* One step of the first run.
first_run ==
  /\ replay.phase = "first"
  /\ Len(replay.trace) = Len(hist.ran)
  /\ Next

\* The answers to the stage that has just run are kept.
keep_answer ==
  /\ replay.phase = "first"
  /\ Len(replay.trace) < Len(hist.ran)
  /\ replay' = [replay EXCEPT !.trace =
       Append(@, [node |-> hist.last.node, answer |-> Answer(hist.last),
                  llm |-> llm])]
  /\ UNCHANGED <<runvars, notreplay, search, clock>>

\* The first run is over: HermesState(...) is built again from the same
\* prompt and options.
second_start ==
  /\ replay.phase = "first"
  /\ pc \in {"returned", "reraised"}
  /\ replay' = [replay EXCEPT
       !.phase = "second",
       !.first = [pc |-> pc, report |-> validated_report, ran |-> hist.ran,
                  query_results |-> query_results]]
  /\ clock' = clock + 1
  /\ pc' = "prompt_normalizer"
  /\ steps' = 0
  /\ exc' = <<>>
  /\ queries' = <<>>
  /\ follow_up_queries' = <<>>
  /\ executed_queries' = <<>>
  /\ query_results' = <<>>
  /\ processed_notes' = <<>>
  /\ draft_report' = NoDraft
  /\ validated_report' = NoReport
  /\ loop_count' = 0
  /\ validation_complete' = FALSE
  /\ error_log' = <<>>
  /\ quality_score' = 0
  /\ llm' = "up"
  /\ meta' = NoMeta
  /\ hist' = NoHist
  /\ UNCHANGED <<cfgvars, notreplay>>

\* One step of the second run, with the answers of the first.
second_run ==
  /\ replay.phase = "second"
  /\ Next
  /\ LET k == Len(hist'.ran) IN
       (Len(hist'.ran) > Len(hist.ran) /\ k <= Len(replay.trace)
          /\ replay.trace[k].node = hist'.last.node)
       => /\ Answer(hist'.last) = replay.trace[k].answer
          /\ llm' = replay.trace[k].llm

ReplayInit ==
  /\ pc = "prompt_normalizer"
  /\ steps = 0
  /\ exc = <<>>
  /\ user_prompt = <<" ", "a", " ">>
  /\ query_count = MaxQueryCount
  /\ min_validation = 1
  /\ max_validation = 1
  /\ max_sources = MaxSourcesCap
  /\ min_sources = 1
  /\ queries = <<>>
  /\ follow_up_queries = <<>>
  /\ executed_queries = <<>>
  /\ query_results = <<>>
  /\ processed_notes = <<>>
  /\ draft_report = NoDraft
  /\ validated_report = NoReport
  /\ loop_count = 0
  /\ validation_complete = FALSE
  /\ error_log = <<>>
  /\ quality_score = 0
  /\ llm = "up"
  /\ meta = NoMeta
  /\ hist = NoHist
  /\ IdleClients
  /\ history = <<>>
  /\ repo = <<>>
  /\ disk = <<>>
  /\ logfile = <<>>
  /\ flow = <<>>
  /\ replay = [phase |-> "first", trace |-> <<>>, first |-> NoFirst]
  /\ search = <<>>

ReplayNext ==
  \/ first_run
  \/ keep_answer
  \/ second_start
  \/ second_run

ReplaySpec == ReplayInit /\ [][ReplayNext]_vars


\* ------------------------------------------------------------ SearchPassSpec
\* One pass of web_researcher, query by query: the `for` loop of
\* web_researcher.py:41-77 runs in the thread of the node, and each turn
\* searches one query and writes its results into state.query_results.
NoPass == [phase |-> "idle", i |-> 0, ran |-> <<>>, before |-> <<>>]
notsearch == <<mcp, ollama, tasks, workers, history, repo, disk, logfile, flow,
               replay, clock, llm, exc, cfgvars, queries, processed_notes,
               draft_report, validated_report, loop_count, validation_complete,
               quality_score, meta>>

\* Up to the loop: the queries are chosen and the browser client is opened.
pass_begin ==
  /\ pc = "web_researcher"
  /\ search.phase = "idle"
  /\ LET to_run == queries_to_run(follow_up_queries, queries) IN
     IF to_run = <<>>
     THEN /\ error_log' = Append(error_log, [node |-> "web_researcher",
                                             what |-> <<"skipped">>])
          /\ search' = [NoPass EXCEPT !.phase = "returned",
                                      !.before = query_results]
          /\ pc' = "container_processor"
          /\ steps' = steps + 1
     ELSE \E browser \in BOOLEAN :
          /\ error_log' = IF browser THEN error_log
                          ELSE Append(error_log, [node |-> "web_researcher",
                                                  what |-> <<"browser">>])
          /\ search' = [phase |-> IF browser THEN "searching" ELSE "closing",
                        i |-> 1, ran |-> to_run, before |-> query_results]
          /\ UNCHANGED <<pc, steps>>
  /\ UNCHANGED <<notsearch, follow_up_queries, executed_queries, query_results,
                 hist>>

\* One turn of the loop: query i is searched and its entry is written.
search_one ==
  /\ search.phase = "searching"
  /\ search.i <= Len(search.ran)
  /\ \E o \in SearchOutcomes(max_sources) :
       LET st == ResearchLoop(<<search.ran[search.i]>>, <<o>>, 1, loop_count,
                   [qr |-> query_results, ex |-> executed_queries,
                    el |-> error_log]) IN
         /\ query_results' = st.qr
         /\ executed_queries' = st.ex
         /\ error_log' = st.el
  /\ search' = [search EXCEPT !.i = @ + 1,
                              !.phase = IF search.i = Len(search.ran)
                                        THEN "closing" ELSE "searching"]
  /\ UNCHANGED <<notsearch, pc, steps, follow_up_queries, hist>>

\* After the loop: the follow-ups are dropped and the node returns.
pass_end ==
  /\ search.phase = "closing"
  /\ follow_up_queries' = <<>>
  /\ search' = [search EXCEPT !.phase = "returned"]
  /\ pc' = "container_processor"
  /\ steps' = steps + 1
  /\ hist' = [hist EXCEPT !.ran = Append(@, "web_researcher")]
  /\ UNCHANGED <<notsearch, executed_queries, query_results, error_log>>

SearchPassInit ==
  /\ pc = "web_researcher"
  /\ steps = 2
  /\ exc = <<>>
  /\ user_prompt \in Prompts
  /\ query_count = MaxQueryCount
  /\ min_validation = 1
  /\ max_validation = MaxLoops
  /\ max_sources = MaxSourcesCap
  /\ min_sources = 1
  /\ queries \in { <<>>, <<Q1>>, <<Q1, Q2>> }
  /\ follow_up_queries \in { <<>>, <<F1, Q1>> }
  /\ executed_queries = <<>>
  /\ query_results = <<>>
  /\ processed_notes = <<>>
  /\ draft_report = NoDraft
  /\ validated_report = NoReport
  /\ loop_count = IF follow_up_queries = <<>> THEN 0 ELSE 1
  /\ validation_complete = FALSE
  /\ error_log = <<>>
  /\ quality_score = 0
  /\ llm = "up"
  /\ meta = NoMeta
  /\ hist = [NoHist EXCEPT !.ran = <<"prompt_normalizer", "query_generator">>]
  /\ mcp = NoCall
  /\ ollama = NoChat
  /\ tasks = <<>>
  /\ workers = <<>>
  /\ clock = 0
  /\ history = <<>>
  /\ repo = <<>>
  /\ disk = <<>>
  /\ logfile = <<>>
  /\ flow = <<>>
  /\ replay = <<>>
  /\ search = NoPass

SearchPassNext ==
  \/ pass_begin
  \/ search_one
  \/ pass_end

SearchPassSpec == SearchPassInit /\ [][SearchPassNext]_vars

\* -------------------------------------------------------------- FollowUpSpec
\* The validator applied to the states a run can hand it: a draft, the
\* query_results of one searcher pass with zero to two Hits per query, and a
\* min_sources the options allow (run_service.py:105 takes any integer; 0
\* asks for no minimum).
SomeHits(n) ==
  [i \in 1..n |-> [url |-> IF i = 1 THEN "u1" ELSE "u2", content |-> TRUE,
                    timestamp |-> 0, loop |-> 0]]
HitCounts == 0..2
SearchedResults ==
  { << [q |-> Q1, v |-> SomeHits(a)] >> : a \in HitCounts } \cup
  { << [q |-> Q1, v |-> SomeHits(a)], [q |-> Q2, v |-> SomeHits(b)] >> :
      a \in HitCounts, b \in HitCounts } \cup
  { << [q |-> Q1, v |-> SomeHits(a)], [q |-> Q2, v |-> <<>>],
       [q |-> Q3, v |-> <<>>], [q |-> F1, v |-> <<>>] >> : a \in HitCounts }

FollowUpInit ==
  /\ pc = "validator"
  /\ steps = 6
  /\ exc = <<>>
  /\ user_prompt \in Prompts
  /\ query_count = MaxQueryCount
  /\ min_validation = 1
  /\ max_validation = MaxLoops
  /\ max_sources = MaxSourcesCap
  /\ min_sources \in 0..MaxSourcesCap
  /\ query_results \in SearchedResults
  /\ queries = [i \in DOMAIN query_results |-> query_results[i].q]
  /\ follow_up_queries = <<>>
  /\ executed_queries = queries
  /\ processed_notes = <<>>
  /\ draft_report = [kind |-> "draft", len |-> 600]
  /\ validated_report = NoReport
  /\ loop_count = 0
  /\ validation_complete = FALSE
  /\ error_log = <<>>
  /\ quality_score = 0
  /\ llm = "up"
  /\ meta = NoMeta
  /\ hist = [NoHist EXCEPT
       !.ran = <<"prompt_normalizer", "query_generator", "web_researcher",
                 "container_processor", "draft_aggregator",
                 "validation_controller">>,
       !.draft_calls = 1]
  /\ IdleComponents

FollowUpNext == validator

FollowUpSpec == FollowUpInit /\ [][FollowUpNext]_vars

\* ------------------------------------------------------------------ LiveSpec
\* A run of the workflow under the scheduling of graph.invoke: as long as a
\* node or the end of the run is enabled, the next step is taken
\* (run_service.py:118).  The run starts from a non-empty prompt with one
\* validation loop required.
LiveInit == CancelInit
LiveSpec == LiveInit /\ [][Next]_vars /\ WF_vars(Next)

\* ================================================================ properties
HasRun(node) == node \in Range(hist.ran)
RunEnded == pc \in {"returned", "reraised"}
InvokeEnded == pc \in {"END", "raised", "returned", "reraised"}
IsSuffix(t, s) == Len(t) <= Len(s) /\ SubSeq(s, Len(s) - Len(t) + 1, Len(s)) = t
Occurrences(s, x) == Cardinality({ i \in DOMAIN s : s[i] = x })

\* C1: in every state of every run, loop_count <= max_validation.
C1_LoopWithinMax == loop_count <= max_validation

\* C2: the run is cut by a recursion limit of 50 transitions: a run that the
\* limit stops has made 50 stage-to-stage transitions.
C2_RecursionLimitIs50 == (exc = <<"GraphRecursionError">>) => steps = 50

\* C3: the stage executed right after every validator pass is the searcher.
C3_SearchAfterValidator ==
  \A i \in 1..(Len(hist.ran) - 1) :
    hist.ran[i] = "validator" => hist.ran[i + 1] = "web_researcher"

\* C4: with min_validation = max_validation = 0 the run executes the stages
\* normalize, query, search, process, draft, controller, finalize in that
\* order and nothing else: one draft pass, no validator call, and a run that
\* has left the graph has executed the finalizer.
StraightRun == <<"prompt_normalizer", "query_generator", "web_researcher",
                 "container_processor", "draft_aggregator",
                 "validation_controller", "final_reporter">>
C4_ZeroLoopsStraightRun ==
  (min_validation = 0 /\ max_validation = 0) =>
    /\ hist.ran = SubSeq(StraightRun, 1, Len(hist.ran))
    /\ Len(hist.ran) <= Len(StraightRun)
    /\ hist.validator_calls = 0
    /\ hist.draft_calls <= 1
    /\ (pc \in Nodes => pc = StraightRun[Len(hist.ran) + 1])
    /\ (InvokeEnded => hist.draft_calls = 1 /\ HasRun("final_reporter"))
C4_Witness ==
  /\ min_validation = 0 /\ max_validation = 0
  /\ pc = "returned" /\ meta.status = "success"
  /\ hist.draft_calls = 1 /\ hist.validator_calls = 0

\* C5: a run with min_validation <= max_validation whose quality_score never
\* reached the threshold, and whose draft is not empty, is not an error: it
\* ends with a success record after exactly max_validation validator passes
\* and reports validation_loops = max_validation.
C5_QualityFailureFinalized ==
  (RunEnded /\ ~hist.reached /\ min_validation <= max_validation
     /\ exc # <<"Execution failed: ", "EmptyDraft">>) =>
    /\ meta.status = "success"
    /\ hist.validator_calls = max_validation
    /\ meta.validation_loops = max_validation

\* C6: validated_report is non-empty exactly when the finalizer has run.
C6_ReportIffFinalized == (validated_report.kind # "none") <=> HasRun("final_reporter")
C6_Witness ==
  /\ HasRun("final_reporter") /\ validated_report.kind = "error"
  /\ HasRun("validator")

\* C7: after a non-fatal failure (a diagnostic in error_log) the run still
\* gets to the finalizer: no exception leaves the graph before finalize ran.
C7_FailuresReachFinalize ==
  (pc = "raised" /\ error_log # <<>>) => HasRun("final_reporter")

\* C8: when the LLM call of the draft stage fails, draft_report is what it was
\* before the stage and the last entry of error_log is the stage's diagnostic.
C8_FailedDraftKeepsDraft ==
  (hist.last.node = "draft_aggregator" /\ hist.last.failed) =>
    /\ draft_report = hist.last.before
    /\ error_log # <<>>
    /\ error_log[Len(error_log)].node = "draft_aggregator"
C8_Witness ==
  /\ hist.last.node = "draft_aggregator" /\ hist.last.failed
  /\ ~Falsy(hist.last.before) /\ draft_report.kind = "revised"

C10_FailureDoesNotAbortOthers ==
  (hist.last.node = "web_researcher" /\ hist.last.browser) =>
    \A i \in DOMAIN hist.last.ran :
      hist.last.out[i].ok =>
        LET q == hist.last.ran[i] IN
          /\ IsSuffix(FormatResults(hist.last.out[i].hits, loop_count),
                      DictGet(query_results, q, <<>>))
          /\ DictHas(query_results, q)
          /\ Occurrences(executed_queries, q) >= 1
C10_Witness ==
  /\ hist.last.node = "web_researcher" /\ hist.last.browser
  /\ \E i, j \in DOMAIN hist.last.ran :
       /\ i < j
       /\ ~hist.last.out[i].ok
       /\ hist.last.out[j].ok /\ hist.last.out[j].hits # <<>>
       /\ DictGet(query_results, hist.last.ran[j], <<>>) # <<>>

\* C11: across searcher passes query_results[q] is only appended to: after a
\* pass the list of every query starts with its whole list from before the
\* pass, and every Hit added in the pass carries loop = the pass's loop_count.
IsPrefix(t, s) == Len(t) <= Len(s) /\ SubSeq(s, 1, Len(t)) = t
AfterSearcherPass == hist.last.node = "web_researcher" /\ pc = "container_processor"
C11_AppendOnly ==
  AfterSearcherPass =>
    \A q \in DictKeys(query_results) \cup DictKeys(hist.last.before) :
      LET old == DictGet(hist.last.before, q, <<>>)
          new == DictGet(query_results, q, <<>>) IN
        /\ IsPrefix(old, new)
        /\ \A i \in (Len(old) + 1)..Len(new) : new[i].loop = loop_count

\* C12: in every state, within each query_results[q] no two Hits have the
\* same URL.
C12_UrlsUniquePerQuery ==
  \A k \in DOMAIN query_results :
    \A a, b \in DOMAIN query_results[k].v :
      a # b => query_results[k].v[a].url # query_results[k].v[b].url

C14_ExecutedIsEveryQueryRun ==
  (pc = "returned" /\ error_log = <<>>) =>
    executed_queries = queries \o hist.follow_ups

\* C15: a search call is attempted at most max_retries times; the wait before
\* the first retry is 0.5 s and each further wait is twice the one before;
\* the call gives up, reporting the failure, only after its last attempt.
C15_RetriesWithBackoff ==
  mcp.status # "idle" =>
    /\ mcp.attempt <= mcp.max_retries
    /\ Len(mcp.sleeps) >= mcp.attempt - 1
    /\ \A k \in DOMAIN mcp.sleeps :
         mcp.sleeps[k] = IF k = 1 THEN 500 ELSE 2 * mcp.sleeps[k - 1]
    /\ (mcp.status = "raised" =>
          mcp.attempt = mcp.max_retries /\ mcp.error # "")
\* three failed attempts with two waits, then the failure is reported
C15_Witness ==
  /\ mcp.status = "raised"
  /\ mcp.attempt = 3
  /\ mcp.responses = <<"500", "exception", "invalid_json">>
  /\ mcp.sleeps = <<500, 1000>>

\* C16: when the service answers 429 and then 200, the call returns after
\* exactly one retry, the results are those of the second answer, and no
\* diagnostic is recorded: a first answer of 429 leaves the call under way
\* while an attempt remains.
C16_RateLimitThenSuccess ==
  /\ (mcp.responses = <<"429">> /\ mcp.max_retries >= 2) =>
       /\ mcp.status = "calling"
       /\ mcp.encountered_errors = <<>>
  /\ (Len(mcp.responses) >= 2
        /\ SubSeq(mcp.responses, 1, 2) = <<"429", "200">>) =>
       /\ mcp.status = "returned"
       /\ mcp.attempt = 2
       /\ Len(mcp.sleeps) = 1
       /\ mcp.aggregated = 2
       /\ mcp.encountered_errors = <<>>
C16_Witness ==
  /\ mcp.status = "returned"
  /\ mcp.responses = <<"429", "200">>
  /\ mcp.sleeps = <<500>>

\* C17: in one LLM call a non-2xx answer may be followed by another request,
\* but a 2xx answer without message.content ends the call: it is the last
\* answer of the call and the call has failed.
C17_MissingContentIsFatal ==
  \A i \in DOMAIN ollama.responses :
    ollama.responses[i] = "no_content" =>
      i = Len(ollama.responses) /\ ollama.status = "raised"

\* C18: process_queue runs its tasks one at a time, oldest first: the
\* selected tasks are the oldest scheduled ones in ascending created_at,
\* a task starts only when every task before it has ended, and the results
\* are in the same order.
C18_OldestFirstOneAtATime ==
  \A w \in DOMAIN workers :
    LET k == workers[w] IN
      /\ \A a, b \in DOMAIN k.scheduled :
           a < b => tasks[k.scheduled[a]].created_at
                      < tasks[k.scheduled[b]].created_at
      /\ \A x \in k.listed \ Range(k.scheduled) :
           \A a \in DOMAIN k.scheduled :
             tasks[k.scheduled[a]].created_at < tasks[x].created_at
      /\ \A j \in DOMAIN k.log :
           /\ k.log[j].id = k.scheduled[(j + 1) \div 2]
           /\ k.log[j].ev = IF j % 2 = 1 THEN "start" ELSE "end"
      /\ \A j \in DOMAIN k.results : k.results[j].task_id = k.scheduled[j]
\* a process has run two tasks out of three scheduled ones, limit 2
C18_Witness ==
  \E w \in DOMAIN workers :
    /\ workers[w].phase = "done"
    /\ Len(workers[w].results) = 2
    /\ Cardinality(workers[w].listed) = 3

\* C19: a failed task does not stop the queue: its result is recorded as
\* failed and every later selected task is run and recorded.
C19_FailureDoesNotStopQueue ==
  \A w \in DOMAIN workers :
    LET k == workers[w] IN
      k.phase = "done" =>
        /\ Len(k.results) = Len(k.scheduled)
        /\ \A j \in DOMAIN k.results :
             /\ k.results[j].task_id = k.scheduled[j]
             /\ k.results[j].status =
                  IF k.log[2 * j].ok THEN "success" ELSE "failed"
\* T1 fails, T2 succeeds: [(T1, failed), (T2, success)]
C19_Witness ==
  \E w \in DOMAIN workers :
    /\ workers[w].phase = "done"
    /\ workers[w].results = << [task_id |-> 1, status |-> "failed"],
                               [task_id |-> 2, status |-> "success"] >>

\* C20: no two queue processes are inside run_task for the same task at
\* the same time.
C20_OneRunPerTask ==
  \A v, w \in DOMAIN workers :
    (v # w /\ workers[v].phase = "running" /\ workers[w].phase = "running")
      => workers[v].scheduled[workers[v].i] # workers[w].scheduled[workers[w].i]

C23_RunIdIsFresh ==
  history.run.phase # "idle" => history.run.id \notin history.run.existing

\* C24: the ID a create call assigns is of the form YYYY-NNNN with the
\* current year, and its number is different from, and greater than, the
\* number of every task of that year the call found in the task directory.
C24_NextIdAboveExisting ==
  \A p \in Procs :
    LET c == repo.calls[p] IN
      c.phase # "idle" =>
        /\ c.id.year \in TaskYears
        /\ IdWidth(c.id.num) = 4
        /\ c.id \notin c.listed
        /\ \A t \in c.listed : t.year = c.id.year => c.id.num > t.num
\* A create that found a gap below the highest number of the year, and a task
\* of another year beside it.
C24_Witness ==
  \E p \in Procs :
    LET c == repo.calls[p] IN
      /\ c.phase = "saved"
      /\ c.id.num = 3
      /\ Cardinality(NumbersOfYear(c.listed, c.id.year)) = 1
      /\ \E t \in c.listed : t.year # c.id.year

\* C25: whatever a concurrent reader reads from a repository file while it is
\* written is the complete old content or the complete new content.
C25_ReaderSeesWholeFile ==
  \A i \in DOMAIN disk.seen : disk.seen[i] \in {disk.old, disk.new}

\* C26: every line of the log file is whole and contiguous: a part of a line
\* that is not its first part follows the part before it of the same line.
C26_LinesContiguous ==
  \A i \in DOMAIN logfile.content :
    LET c == logfile.content[i] IN
      c.part > 1 =>
        /\ i > 1
        /\ logfile.content[i - 1] = [c EXCEPT !.part = c.part - 1]

\* C27: once the run is cancelled no further stage starts and the run ends
\* with a HistoryMeta of status failed written.
C27_CancelRecordsFailure ==
  pc = "interrupted" =>
    /\ meta.status = "failed"
    /\ \A n \in Nodes : ~CanRun(n)

\* C28: the stages called are the injected ones wherever a stage is injected,
\* and they are called in the order of the graph; a streamed run has exactly
\* one event per executed stage, in execution order, naming the stage's node
\* and carrying its update, and a run that is not streamed has none; a
\* finished run without a second search has executed input, search,
\* processing, llm, verification, report.
GraphEdges ==
  { <<"input", "search">>, <<"search", "processing">>, <<"processing", "llm">>,
    <<"llm", "verification">>, <<"verification", "search">>,
    <<"verification", "report">> }
SixStages == <<"input", "search", "processing", "llm", "verification", "report">>
CalledStages == [i \in DOMAIN flow.calls |-> flow.calls[i].stage]
AfterControllerPass == hist.last.node = "validation_controller"
C30_DecisionTable ==
  AfterControllerPass =>
    /\ validation_complete =
         (IF loop_count < min_validation THEN FALSE
          ELSE IF loop_count >= max_validation THEN TRUE
          ELSE quality_score >= QualityThreshold)
    /\ ((loop_count >= min_validation /\ loop_count < max_validation)
          => quality_score = hist.last.score)
\* A pass after a validator loop that the score decides, and decides to stop.
C30_Witness ==
  /\ AfterControllerPass
  /\ hist.last.branch = "quality"
  /\ validation_complete
  /\ loop_count > 0

\* C31: every validator pass leaves loop_count one above what it found and
\* leaves follow_up_queries set, to between one and three follow-ups.
AfterValidatorPass ==
  hist.last.node = "validator" /\ "loop_before" \in DOMAIN hist.last
C31_ValidatorIncrements ==
  AfterValidatorPass =>
    /\ loop_count = hist.last.loop_before + 1
    /\ follow_up_queries # <<>>
    /\ Len(follow_up_queries) <= MaxFollowUps

\* C33: after every controller pass quality_score is the heuristic score of
\* the state at that pass and validation_complete is the decision of that pass.
C33_ScoreIsOfThisPass ==
  AfterControllerPass =>
    /\ quality_score = hist.last.score
    /\ validation_complete =
         (CASE hist.last.branch = "below_min" -> FALSE
            [] hist.last.branch = "max_reached" -> TRUE
            [] OTHER -> hist.last.score >= QualityThreshold)

\* C34: the state handed to the workflow has min_validation <= max_validation.
C34_MinWithinMax == min_validation <= max_validation

\* C35: a searcher pass entered with follow-ups runs exactly the follow-ups,
\* one entered without runs exactly the baseline queries; the queries whose
\* search succeeded are appended to executed_queries in that order, every
\* query run has an entry in query_results, and follow_up_queries is empty
\* after the pass.
RECURSIVE Succeeded(_, _, _)
Succeeded(qs, out, i) ==
  IF i > Len(qs) THEN <<>>
  ELSE (IF out[i].ok THEN <<qs[i]>> ELSE <<>>) \o Succeeded(qs, out, i + 1)
C35_FollowUpsConsumed ==
  AfterSearcherPass =>
    /\ hist.last.ran = (IF hist.last.follow_before # <<>>
                        THEN hist.last.follow_before ELSE queries)
    /\ (hist.last.browser =>
          /\ executed_queries =
               hist.last.executed_before \o Succeeded(hist.last.ran, hist.last.out, 1)
          /\ Range(hist.last.ran) \subseteq DictKeys(query_results))
    /\ (~hist.last.browser => executed_queries = hist.last.executed_before)
    /\ follow_up_queries = <<>>
\* A pass that ran follow-ups which are not the baseline queries, one of them
\* with a successful search.
C35_Witness ==
  /\ AfterSearcherPass
  /\ hist.last.follow_before # <<>>
  /\ hist.last.follow_before # queries
  /\ hist.last.ran = hist.last.follow_before
  /\ hist.last.browser
  /\ \E i \in DOMAIN hist.last.out : hist.last.out[i].ok
  /\ follow_up_queries = <<>>

\* C32: a run whose prompt is non-empty eventually executes the finalizer,
\* whatever the outcomes of its LLM calls and searches.
C32_EventuallyFinalizes ==
  (Strip(user_prompt) # <<>>) ~> HasRun("final_reporter")

\* C38: two create calls that overlap, both between generating their ID and
\* saving their task, hold different IDs.
C38_OverlappingCreatesDiffer ==
  \A p, q \in Procs :
    (p # q /\ repo.calls[p].phase = "generated"
           /\ repo.calls[q].phase = "generated")
      => repo.calls[p].id # repo.calls[q].id

\* C39: the ID a create call generates is not the ID of a task deleted
\* before the call.
C39_DeletedIdNotReused ==
  \A p \in Procs :
    repo.calls[p].phase # "idle" => repo.calls[p].id \notin repo.calls[p].gone

\* C37: a task is running only while a run_task call is executing its run;
\* once every run_task call for it has finished it is done or failed, and
\* when a single call ran it, done exactly when that call returned and
\* failed exactly when it raised.  A run raises here what `except Exception`
\* (run_service.py:190) catches; a run cut short by KeyboardInterrupt is the
\* case of C27.
Executing(w, id) ==
  /\ workers[w].phase = "running"
  /\ workers[w].scheduled[workers[w].i] = id
EndedBy(w, id) ==
  \E k \in DOMAIN workers[w].log :
    workers[w].log[k].ev = "end" /\ workers[w].log[k].id = id
TouchedBy(w, id) ==
  \E k \in DOMAIN workers[w].log : workers[w].log[k].id = id
SynthesizedPass ==
  /\ AfterValidatorPass
  /\ hist.last.outcome = "revised"
  /\ extract_follow_up_queries(hist.last.resp.follow) = <<>>
ExpectedFollowUps(floor) ==
  LET short == SelectSeq(query_results, LAMBDA e : Len(e.v) < floor)
      named == [i \in DOMAIN short |->
                  short[i].q \o <<" primary sources and statistics">>]
      chosen == IF named # <<>> THEN named
                ELSE << user_prompt \o <<" recent developments">>,
                        user_prompt \o <<" case studies">>,
                        user_prompt \o <<" expert interviews">> >>
  IN SubSeq(chosen, 1, Min(Len(chosen), MaxFollowUps))
NoDuplicates(seq) ==
  \A i, j \in DOMAIN seq : i # j => seq[i] # seq[j]
C36_MergedAfterAll ==
  search.phase = "searching" => query_results = search.before

====
